---- MODULE Spec2Model ----
(***************************************************************************)
(* rustdb: the MVCC transaction layer (src/storage/mvcc.rs) over an        *)
(* ordered byte-key store, and the KV-backed SQL engine on top of it       *)
(* (src/sql/engine, src/sql/executor).                                     *)
(*                                                                         *)
(* The store is modelled as what it is: a map from byte strings to byte    *)
(* strings, ordered lexicographically.  Keys are the bincode encodings of  *)
(* MvccKey (u32 little-endian variant index, u64 little-endian integers,   *)
(* u64 length prefix for byte vectors), so every range scan and prefix     *)
(* scan of the code is evaluated on the encoded bytes.                     *)
(***************************************************************************)
EXTENDS Integers, Sequences, FiniteSets, TLC

VARIABLES
    engine,   \* the shared KV engine behind Arc<Mutex<E>>: encoded key -> value
    txns,     \* the MvccTransaction objects handed out so far, in begin order
    log,      \* the statements run through Session::execute and what each returned
    mutex,    \* the Mutex around the engine: 0 when free, else the thread holding it
    threads   \* per client thread: where it is in the MVCC method it has called

vars == <<engine, txns, log, mutex, threads>>

----------------------------------------------------------------------------
(* Bounds of the model *)

\* number of begin calls explored from the empty store
MaxTxns == 3

\* NextVersion of the used engine the long run starts from
UsedVersion == 254

\* number of begin calls explored when ended transactions are used again
MaxReuseTxns == 2

\* number of SQL transactions explored, begun by clients or by Session::execute
MaxSqlTxns == 2

\* number of client threads that share one Mvcc, each running one transaction
MaxThreads == 2

\* raw user keys written through the MVCC layer; the t-th transaction writes
\* its own value, so that a read shows whose write it returns
RawKeys == { <<107>>, <<107, 1>> }
RawValue(t) == <<96 + (t % 32)>>

----------------------------------------------------------------------------
(* bincode primitives (fixed-width little-endian integers) *)

\* u64 as 8 little-endian bytes; the model only uses values below 2^24
U64(n) ==
    [i \in 1..8 |-> IF i = 1 THEN n % 256
                    ELSE IF i = 2 THEN (n \div 256) % 256
                    ELSE IF i = 3 THEN (n \div 65536) % 256
                    ELSE 0]

\* u64::MAX
U64Max == [i \in 1..8 |-> 255]

FromU64(b) == b[1] + 256 * b[2] + 65536 * b[3]

\* enum variant index: u32 little-endian
VariantIndex(i) == <<i, 0, 0, 0>>

\* Vec<u8>: u64 length, then the bytes
VecU8(raw) == U64(Len(raw)) \o raw

----------------------------------------------------------------------------
(* The ordered KV engine: byte-string keys in lexicographic order *)

\* a < b from byte i on, the bytes before i being equal
RECURSIVE LexLessFrom(_, _, _)
LexLessFrom(a, b, i) ==
    IF i > Len(b) THEN FALSE
    ELSE IF i > Len(a) THEN TRUE
    ELSE IF a[i] = b[i] THEN LexLessFrom(a, b, i + 1)
    ELSE a[i] < b[i]

LexLess(a, b) == LexLessFrom(a, b, 1)

LexLE(a, b) == a = b \/ LexLess(a, b)

IsPrefix(p, k) == Len(p) <= Len(k) /\ SubSeq(k, 1, Len(p)) = p

EmptyEngine == [k \in {} |-> <<>>]

EngGet(eng, k) == IF k \in DOMAIN eng THEN <<eng[k]>> ELSE <<>>

EngSet(eng, k, v) == (k :> v) @@ eng

EngDelete(eng, k) == [x \in DOMAIN eng \ {k} |-> eng[x]]

RECURSIVE EngDeleteAll(_, _)
EngDeleteAll(eng, keys) ==
    IF keys = <<>> THEN eng
    ELSE EngDeleteAll(EngDelete(eng, Head(keys)), Tail(keys))

\* the element of a one-element set; Only({ e(x) : x \in {d} }) is e(d) with d
\* evaluated once
Only(S) == CHOOSE x \in S : TRUE

\* the keys of S in ascending byte order
RECURSIVE Ordered(_)
Ordered(S) ==
    IF S = {} THEN <<>>
    ELSE Only({ <<m>> \o Ordered(S \ {m}) :
                m \in {CHOOSE x \in S : \A y \in S : LexLE(x, y)} })

\* the (key, value) pairs of eng for the keys ks, in the order of ks
Pairs(eng, ks) == [i \in 1..Len(ks) |-> <<ks[i], eng[ks[i]]>>]

\* scan(from ..= to): the (key, value) pairs of the range, ascending
EngScan(eng, from, to) ==
    Only({ Pairs(eng, ks) :
           ks \in {Ordered({k \in DOMAIN eng : LexLE(from, k) /\ LexLE(k, to)})} })

\* scan_prefix(p): the (key, value) pairs whose key starts with p, ascending
EngScanPrefix(eng, p) ==
    Only({ Pairs(eng, ks) : ks \in {Ordered({k \in DOMAIN eng : IsPrefix(p, k)})} })

----------------------------------------------------------------------------
(* MvccKey / MvccKeyPrefix and their bincode encodings *)

NextVersion == VariantIndex(0)

TxnAcvtive(version) == VariantIndex(1) \o U64(version)

TxnWrite(version, raw) == VariantIndex(2) \o U64(version) \o VecU8(raw)

\* Version(raw, v) with the version field given as its 8 encoded bytes
VersionBytes(raw, vbytes) == VariantIndex(3) \o VecU8(raw) \o vbytes

Version(raw, version) == VersionBytes(raw, U64(version))

PrefixTxnAcvtive == VariantIndex(1)

PrefixTxnWrite(version) == VariantIndex(2) \o U64(version)

DecodeError == [kind |-> "Error", version |-> 0, raw |-> <<>>]

\* MvccKey::decode: bincode::deserialize of the key bytes
decode(b) ==
    IF Len(b) < 4 \/ SubSeq(b, 2, 4) # <<0, 0, 0>> THEN DecodeError
    ELSE IF b[1] = 0 /\ Len(b) = 4
        THEN [kind |-> "NextVersion", version |-> 0, raw |-> <<>>]
    ELSE IF b[1] = 1 /\ Len(b) = 12
        THEN [kind |-> "TxnAcvtive", version |-> FromU64(SubSeq(b, 5, 12)), raw |-> <<>>]
    ELSE IF b[1] = 2 /\ Len(b) >= 20 /\ Len(b) = 20 + FromU64(SubSeq(b, 13, 20))
        THEN [kind |-> "TxnWrite", version |-> FromU64(SubSeq(b, 5, 12)),
              raw |-> SubSeq(b, 21, Len(b))]
    ELSE IF b[1] = 3 /\ Len(b) >= 20 /\ Len(b) = 20 + FromU64(SubSeq(b, 5, 12))
        THEN [kind |-> "Version", version |-> FromU64(SubSeq(b, Len(b) - 7, Len(b))),
              raw |-> SubSeq(b, 13, Len(b) - 8)]
    ELSE DecodeError

(* Option<Vec<u8>>, the value stored under a Version key *)

None == [some |-> FALSE, bytes |-> <<>>]

Some(bytes) == [some |-> TRUE, bytes |-> bytes]

\* bincode::serialize(&Option<Vec<u8>>)
SerOption(o) == IF o.some THEN <<1>> \o VecU8(o.bytes) ELSE <<0>>

\* bincode::deserialize::<Option<Vec<u8>>>
DeOption(b) ==
    IF b = <<0>> THEN [ok |-> TRUE, value |-> None]
    ELSE IF Len(b) >= 9 /\ b[1] = 1 /\ Len(b) = 9 + FromU64(SubSeq(b, 2, 9))
        THEN [ok |-> TRUE, value |-> Some(SubSeq(b, 10, Len(b)))]
    ELSE [ok |-> FALSE, value |-> None]

----------------------------------------------------------------------------
(* TransactionState and the MvccTransaction methods, as functions of the   *)
(* engine contents (each runs under the engine mutex from start to end)     *)

TransactionState(version, active_versions) ==
    [version |-> version, active_versions |-> active_versions]

\* is_visible without the check against the snapshot taken at begin
is_visible_IgnoreActive(state, version) == version <= state.version

\* is_visible with a strict comparison, which hides the transaction's own version
is_visible_Strict(state, version) ==
    IF version \in state.active_versions THEN FALSE
    ELSE version < state.version

is_visible(state, version) ==
    IF version \in state.active_versions THEN FALSE
    ELSE version <= state.version

SetMin(S) == CHOOSE x \in S : \A y \in S : x <= y

SetMax(S) == CHOOSE x \in S : \A y \in S : y <= x

\* scan_active: the versions of all TxnAcvtive keys
scan_active(eng) ==
    Only({ IF \E d \in ds : d.kind # "TxnAcvtive"
           THEN [res |-> "Internal", active_versions |-> {}]
           ELSE [res |-> "Ok", active_versions |-> {d.version : d \in ds}] :
           ds \in { {decode(items[i][1]) : i \in 1..Len(items)} :
                    items \in {EngScanPrefix(eng, PrefixTxnAcvtive)} } })

\* begin that does not store the advanced NextVersion
begin_NoStore(eng) ==
    LET next_version == IF EngGet(eng, NextVersion) # <<>>
                        THEN FromU64(EngGet(eng, NextVersion)[1])
                        ELSE 1
        active == scan_active(eng)
    IN [engine |-> EngSet(eng, TxnAcvtive(next_version), <<>>), res |-> "Ok",
        state |-> TransactionState(next_version, active.active_versions)]

\* begin that writes its own active marker before it scans the active set
begin_MarkFirst(eng) ==
    Only({ Only({ [engine |-> e2, res |-> "Ok",
                   state |-> TransactionState(next_version, scan_active(e2).active_versions)] :
                  e2 \in {EngSet(EngSet(eng, NextVersion, U64(next_version + 1)),
                                 TxnAcvtive(next_version), <<>>)} }) :
           next_version \in { IF EngGet(eng, NextVersion) # <<>>
                              THEN FromU64(EngGet(eng, NextVersion)[1])
                              ELSE 1 } })

\* begin once next_version has been stored: e1 is the engine after that store
begin_scan(e1, next_version) ==
    Only({ IF active.res # "Ok"
           THEN [engine |-> e1, res |-> active.res, state |-> TransactionState(0, {})]
           ELSE [engine |-> EngSet(e1, TxnAcvtive(next_version), <<>>), res |-> "Ok",
                 state |-> TransactionState(next_version, active.active_versions)] :
           active \in {scan_active(e1)} })

begin(eng) ==
    Only({ Only({ begin_scan(e1, next_version) :
                  e1 \in {EngSet(eng, NextVersion, U64(next_version + 1))} }) :
           next_version \in { IF EngGet(eng, NextVersion) # <<>>
                              THEN FromU64(EngGet(eng, NextVersion)[1])
                              ELSE 1 } })

\* commit that removes the active marker but leaves the TxnWrite entries
commit_KeepWrites(eng, state) ==
    [engine |-> EngDelete(eng, TxnAcvtive(state.version)), res |-> "Ok"]

\* commit that scans the TxnWrite entries of every version, not only its own
commit_AllWrites(eng, state) ==
    Only({ [engine |-> EngDelete(EngDeleteAll(eng, [i \in 1..Len(items) |-> items[i][1]]),
                                 TxnAcvtive(state.version)),
            res |-> "Ok"] :
           items \in {EngScanPrefix(eng, VariantIndex(2))} })

commit(eng, state) ==
    Only({ [engine |-> EngDelete(EngDeleteAll(eng, [i \in 1..Len(items) |-> items[i][1]]),
                                 TxnAcvtive(state.version)),
            res |-> "Ok"] :
           items \in {EngScanPrefix(eng, PrefixTxnWrite(state.version))} })

\* the keys rollback collects for one TxnWrite entry: the Version key, then the entry
RECURSIVE rollback_keys(_, _, _)
rollback_keys(state, items, i) ==
    IF i > Len(items) THEN <<>>
    ELSE <<Version(decode(items[i][1]).raw, state.version), items[i][1]>>
             \o rollback_keys(state, items, i + 1)

\* rollback that cleans up as commit does, leaving the Version entries
rollback_KeepVersions(eng, state) == commit(eng, state)

\* rollback that removes the transaction's writes but not its active marker
rollback_KeepActive(eng, state) ==
    Only({ [engine |-> EngDeleteAll(eng, rollback_keys(state, items, 1)), res |-> "Ok"] :
           items \in {EngScanPrefix(eng, PrefixTxnWrite(state.version))} })

rollback(eng, state) ==
    Only({ IF \E i \in 1..Len(items) : decode(items[i][1]).kind # "TxnWrite"
           THEN [engine |-> eng, res |-> "Internal"]
           ELSE [engine |-> EngDelete(EngDeleteAll(eng, rollback_keys(state, items, 1)),
                                      TxnAcvtive(state.version)),
                 res |-> "Ok"] :
           items \in {EngScanPrefix(eng, PrefixTxnWrite(state.version))} })

\* the reverse iteration of get: items[i], items[i-1], ... until a visible version
RECURSIVE get_iter(_, _, _)
get_iter(state, items, i) ==
    IF i = 0 THEN [res |-> "Ok", value |-> None, version |-> 0]
    ELSE Only({ IF d.kind # "Version"
                THEN [res |-> "Internal", value |-> None, version |-> 0]
                ELSE IF is_visible(state, d.version)
                THEN IF DeOption(items[i][2]).ok
                     THEN [res |-> "Ok", value |-> DeOption(items[i][2]).value,
                           version |-> d.version]
                     ELSE [res |-> "Internal", value |-> None, version |-> 0]
                ELSE get_iter(state, items, i - 1) :
                d \in {decode(items[i][1])} })

\* get that scans the versions below the transaction's own, as the comment in
\* the code describes the range
get_BelowOwn(eng, state, key) ==
    Only({ get_iter(state, items, Len(items)) :
           items \in {EngScan(eng, Version(key, 0), Version(key, state.version - 1))} })

get(eng, state, key) ==
    Only({ get_iter(state, items, Len(items)) :
           items \in {EngScan(eng, Version(key, 0), Version(key, state.version))} })

\* the version write_inner scans from: the oldest active version, or the one
\* after the transaction's own
lo(state) ==
    IF state.active_versions # {} THEN SetMin(state.active_versions) ELSE state.version + 1

\* the range write_inner scans for a conflicting version of key
conflict_range(eng, state, key) ==
    Only({ EngScan(eng, from, to) :
           from \in {Version(key, lo(state))},
           to \in {VersionBytes(key, U64Max)} })

\* write_inner that stores the version without recording it in TxnWrite
write_inner_NoTxnWrite(eng, state, key, value) ==
    Only({ IF last # <<>> /\ last[1].kind # "Version"
           THEN [engine |-> eng, res |-> "Internal"]
           ELSE IF last # <<>> /\ ~is_visible(state, last[1].version)
           THEN [engine |-> eng, res |-> "WriteConflict"]
           ELSE [engine |-> EngSet(eng, Version(key, state.version), SerOption(value)),
                 res |-> "Ok"] :
           last \in { IF Len(items) > 0 THEN <<decode(items[Len(items)][1])>> ELSE <<>> :
                      items \in {conflict_range(eng, state, key)} } })

\* write_inner that records the write in TxnWrite before the conflict check
write_inner_RecordFirst(eng, state, key, value) ==
    Only({ IF last # <<>> /\ last[1].kind # "Version"
           THEN [engine |-> EngSet(eng, TxnWrite(state.version, key), <<>>), res |-> "Internal"]
           ELSE IF last # <<>> /\ ~is_visible(state, last[1].version)
           THEN [engine |-> EngSet(eng, TxnWrite(state.version, key), <<>>),
                 res |-> "WriteConflict"]
           ELSE [engine |-> EngSet(EngSet(eng, TxnWrite(state.version, key), <<>>),
                                   Version(key, state.version), SerOption(value)),
                 res |-> "Ok"] :
           last \in { IF Len(items) > 0 THEN <<decode(items[Len(items)][1])>> ELSE <<>> :
                      items \in {conflict_range(eng, state, key)} } })

write_inner(eng, state, key, value) ==
    Only({ IF last # <<>> /\ last[1].kind # "Version"
           THEN [engine |-> eng, res |-> "Internal"]
           ELSE IF last # <<>> /\ ~is_visible(state, last[1].version)
           THEN [engine |-> eng, res |-> "WriteConflict"]
           ELSE [engine |-> EngSet(EngSet(eng, TxnWrite(state.version, key), <<>>),
                                   Version(key, state.version), SerOption(value)),
                 res |-> "Ok"] :
           last \in { IF Len(items) > 0 THEN <<decode(items[Len(items)][1])>> ELSE <<>> :
                      items \in {conflict_range(eng, state, key)} } })

set(eng, state, key, value) == write_inner(eng, state, key, Some(value))

delete(eng, state, key) == write_inner(eng, state, key, None)

----------------------------------------------------------------------------
(* SQL types and schema: Value, DataType, Column, Table, Row *)

Null == [type |-> "Null", int |-> 0, str |-> <<>>]

Integer(i) == [type |-> "Integer", int |-> i, str |-> <<>>]

String(bytes) == [type |-> "String", int |-> 0, str |-> bytes]

\* Value::datatype: <<>> for Null, else the DataType of the variant
datatype(value) == IF value.type = "Null" THEN <<>> ELSE <<value.type>>

\* Value::from_expression: a constant expression becomes the value it denotes
from_expression(expr) == expr.consts

Consts(value) == [consts |-> value]

Column(name, dt, nullable, default) ==
    [name |-> name, datatype |-> dt, nullable |-> nullable, default |-> default]

Table(name, columns) == [name |-> name, columns |-> columns]

(* bincode encodings of the SQL keys and of the stored rows and tables *)

DataTypeIndex(dt) ==
    CASE dt = "Boolean" -> 0 [] dt = "Integer" -> 1 [] dt = "Float" -> 2 [] dt = "String" -> 3

SerValue(value) ==
    CASE value.type = "Null" -> VariantIndex(0)
      [] value.type = "Boolean" -> VariantIndex(1) \o <<value.int>>
      [] value.type = "Integer" -> VariantIndex(2) \o U64(value.int)
      [] value.type = "Float" -> VariantIndex(3) \o U64(value.int)
      [] value.type = "String" -> VariantIndex(4) \o VecU8(value.str)

\* Key::Table(name) and Key::Row(table, first column value)
KeyTable(name) == VariantIndex(0) \o VecU8(name)

KeyRow(name, value) == VariantIndex(1) \o VecU8(name) \o SerValue(value)

\* KeyPrefix::Row(table)
KeyPrefixRow(name) == VariantIndex(1) \o VecU8(name)

RECURSIVE SerValues(_)
SerValues(row) == IF row = <<>> THEN <<>> ELSE SerValue(Head(row)) \o SerValues(Tail(row))

SerRow(row) == U64(Len(row)) \o SerValues(row)

SerColumn(c) ==
    VecU8(c.name) \o VariantIndex(DataTypeIndex(c.datatype))
        \o <<IF c.nullable THEN 1 ELSE 0>>
        \o (IF c.default = <<>> THEN <<0>> ELSE <<1>> \o SerValue(c.default[1]))

RECURSIVE SerColumns(_)
SerColumns(cs) == IF cs = <<>> THEN <<>> ELSE SerColumn(Head(cs)) \o SerColumns(Tail(cs))

SerTable(table) == VecU8(table.name) \o U64(Len(table.columns)) \o SerColumns(table.columns)

----------------------------------------------------------------------------
(* The statements the SQL clients of the model issue (parsed ASTs) *)

AstColumn(name, dt, nullable, default) ==
    [name |-> name, datatype |-> dt, nullable |-> nullable, default |-> default]

Statement(kind, name, columns, values) ==
    [kind |-> kind, name |-> name, columns |-> columns, values |-> values]

TableT == <<116>>
ColA == <<97>>
ColB == <<98>>
ColC == <<99>>
TableT1 == <<116, 49>>

\* create table t (a int, b text default 'v');
StmtCreate ==
    Statement("CreateTable", TableT,
              << AstColumn(ColA, "Integer", <<>>, <<>>),
                 AstColumn(ColB, "String", <<>>, <<Consts(String(<<118>>))>>) >>,
              <<>>)

\* insert into t values (1, 'a');
StmtInsert ==
    Statement("Insert", TableT, <<>>,
              << <<Consts(Integer(1)), Consts(String(<<97>>))>> >>)

\* insert into t values (1, 'a'), (2, 3);   -- the second tuple has an int for b
StmtInsertBad ==
    Statement("Insert", TableT, <<>>,
              << <<Consts(Integer(1)), Consts(String(<<97>>))>>,
                 <<Consts(Integer(2)), Consts(Integer(3))>> >>)

\* select * from t;
StmtSelect == Statement("Select", TableT, <<>>, <<>>)

\* insert into t values (3, 'a', 5);   -- one value more than t has columns
StmtInsertLong ==
    Statement("Insert", TableT, <<>>,
              << <<Consts(Integer(3)), Consts(String(<<97>>)), Consts(Integer(5))>> >>)

\* create table t1 (a int, b text default 'vv', c integer default 100);
StmtCreateT1 ==
    Statement("CreateTable", TableT1,
              << AstColumn(ColA, "Integer", <<>>, <<>>),
                 AstColumn(ColB, "String", <<>>, <<Consts(String(<<118, 118>>))>>),
                 AstColumn(ColC, "Integer", <<>>, <<Consts(Integer(100))>>) >>,
              <<>>)

\* insert into t1 values(1, 'a', 1);
StmtInsertT1a ==
    Statement("Insert", TableT1, <<>>,
              << <<Consts(Integer(1)), Consts(String(<<97>>)), Consts(Integer(1))>> >>)

\* insert into t1 values(2, 'b');
StmtInsertT1b ==
    Statement("Insert", TableT1, <<>>,
              << <<Consts(Integer(2)), Consts(String(<<98>>))>> >>)

\* insert into t1(c, a) values(200, 3);
StmtInsertT1c ==
    Statement("Insert", TableT1, << <<ColC, ColA>> >>,
              << <<Consts(Integer(200)), Consts(Integer(3))>> >>)

\* select * from t1;
StmtSelectT1 == Statement("Select", TableT1, <<>>, <<>>)

\* the statements about table t and those of the scenario about table t1
StatementsT == {StmtCreate, StmtInsert, StmtInsertBad, StmtInsertLong, StmtSelect}

StatementsT1 == {StmtCreateT1, StmtInsertT1a, StmtInsertT1b, StmtInsertT1c, StmtSelectT1}

Statements == StatementsT \cup StatementsT1

----------------------------------------------------------------------------
(* Planner::build_statment *)

Node(kind, schema, table_name, columns, values) ==
    [kind |-> kind, schema |-> schema, table_name |-> table_name,
     columns |-> columns, values |-> values]

NoSchema == Table(<<>>, <<>>)

build_column(c) ==
    LET nullable == IF c.nullable = <<>> THEN TRUE ELSE c.nullable[1]
        default == IF c.default # <<>> THEN <<from_expression(c.default[1])>>
                   ELSE IF nullable THEN <<Null>>
                   ELSE <<>>
    IN Column(c.name, c.datatype, nullable, default)

build_statment(stmt) ==
    CASE stmt.kind = "CreateTable" ->
            Node("CreateTable",
                 Table(stmt.name, [j \in 1..Len(stmt.columns) |-> build_column(stmt.columns[j])]),
                 <<>>, <<>>, <<>>)
      [] stmt.kind = "Insert" ->
            Node("Insert", NoSchema, stmt.name,
                 IF stmt.columns = <<>> THEN <<>> ELSE stmt.columns[1], stmt.values)
      [] stmt.kind = "Select" ->
            Node("Scan", NoSchema, stmt.name, <<>>, <<>>)

\* a table without columns
NoColumns == Table(<<101>>, <<>>)

\* the table metadata the model's clients create
Schemas ==
    {build_statment(st).schema : st \in {x \in Statements : x.kind = "CreateTable"}}
        \cup {NoColumns}

\* the rows clients hand to create_row for table t: one that fits its two
\* columns, one with a value too few and one with a value too many
RowsGiven ==
    { <<Integer(1), String(<<97>>)>>,
      <<Integer(4)>>,
      <<Integer(3), String(<<97>>), Integer(5)>> }

\* bincode::deserialize::<Table>: the table whose encoding the bytes are
DeTable(b) ==
    IF \E tb \in Schemas : SerTable(tb) = b
    THEN [ok |-> TRUE, table |-> CHOOSE tb \in Schemas : SerTable(tb) = b]
    ELSE [ok |-> FALSE, table |-> NoSchema]

----------------------------------------------------------------------------
(* KVTransaction: the SQL Transaction over one MvccTransaction *)

\* KVTransaction::commit and KVTransaction::rollback
kv_commit(eng, state) == [engine |-> eng, res |-> "Ok"]

kv_rollback(eng, state) == [engine |-> eng, res |-> "Ok"]

get_table(eng, state, table_name) ==
    Only({ IF r.res # "Ok" THEN [res |-> r.res, table |-> <<>>]
           ELSE IF ~r.value.some THEN [res |-> "Ok", table |-> <<>>]
           ELSE Only({ IF de.ok THEN [res |-> "Ok", table |-> <<de.table>>]
                       ELSE [res |-> "Internal", table |-> <<>>] :
                       de \in {DeTable(r.value.bytes)} }) :
           r \in {get(eng, state, KeyTable(table_name))} })

must_get_table(eng, state, table_name) ==
    Only({ IF r.res = "Ok" /\ r.table = <<>> THEN [res |-> "Internal", table |-> <<>>] ELSE r :
           r \in {get_table(eng, state, table_name)} })

create_table_NoColumnCheck(eng, state, table) ==
    Only({ IF found.res # "Ok" THEN [engine |-> eng, res |-> found.res]
           ELSE IF found.table # <<>> THEN [engine |-> eng, res |-> "Internal"]
           ELSE set(eng, state, KeyTable(table.name), SerTable(table)) :
           found \in {get_table(eng, state, table.name)} })

create_table(eng, state, table) ==
    Only({ IF found.res # "Ok" THEN [engine |-> eng, res |-> found.res]
           ELSE IF found.table # <<>> THEN [engine |-> eng, res |-> "Internal"]
           ELSE IF table.columns = <<>> THEN [engine |-> eng, res |-> "Internal"]
           ELSE set(eng, state, KeyTable(table.name), SerTable(table)) :
           found \in {get_table(eng, state, table.name)} })

\* the validation loop of create_row from column i on; row[i] of a row that is
\* too short is an index out of bounds, which panics
RECURSIVE check_row(_, _, _)
check_row(columns, row, i) ==
    IF i > Len(columns) THEN "Ok"
    ELSE IF i > Len(row) THEN "Panic"
    ELSE IF datatype(row[i]) = <<>>
         THEN IF columns[i].nullable THEN check_row(columns, row, i + 1) ELSE "Internal"
    ELSE IF datatype(row[i])[1] # columns[i].datatype THEN "Internal"
    ELSE check_row(columns, row, i + 1)

create_row(eng, state, table_name, row) ==
    Only({ IF tb.res # "Ok" THEN [engine |-> eng, res |-> tb.res]
           ELSE Only({ IF checked # "Ok" THEN [engine |-> eng, res |-> checked]
                       ELSE IF row = <<>> THEN [engine |-> eng, res |-> "Panic"]
                       ELSE set(eng, state, KeyRow(table_name, row[1]), SerRow(row)) :
                       checked \in {check_row(tb.table[1].columns, row, 1)} }) :
           tb \in {must_get_table(eng, state, table_name)} })

\* bincode::deserialize of one Value at byte pos of b; next is the byte after it
DeValue(b, pos) ==
    LET fail == [ok |-> FALSE, value |-> Null, next |-> pos]
        has(n) == pos + 3 + n <= Len(b)
        at == pos + 4
    IN IF ~has(0) \/ SubSeq(b, pos + 1, pos + 3) # <<0, 0, 0>> THEN fail
       ELSE IF b[pos] = 0 THEN [ok |-> TRUE, value |-> Null, next |-> at]
       ELSE IF b[pos] = 2 /\ has(8)
            THEN [ok |-> TRUE, value |-> Integer(FromU64(SubSeq(b, at, at + 7))),
                  next |-> at + 8]
       ELSE IF b[pos] = 4 /\ has(8) /\ has(8 + FromU64(SubSeq(b, at, at + 7)))
            THEN [ok |-> TRUE,
                  value |-> String(SubSeq(b, at + 8, at + 7 + FromU64(SubSeq(b, at, at + 7)))),
                  next |-> at + 8 + FromU64(SubSeq(b, at, at + 7))]
       ELSE fail

\* n values from byte pos of b on, appended to row
RECURSIVE DeValues(_, _, _, _)
DeValues(b, pos, n, row) ==
    IF n = 0 THEN [ok |-> TRUE, row |-> row]
    ELSE Only({ IF ~d.ok THEN [ok |-> FALSE, row |-> <<>>]
                ELSE DeValues(b, d.next, n - 1, Append(row, d.value)) :
                d \in {DeValue(b, pos)} })

\* bincode::deserialize::<Row>: u64 length, then the values; bytes after the
\* last value are ignored
DeRow(b) ==
    IF Len(b) < 8 THEN [ok |-> FALSE, row |-> <<>>]
    ELSE DeValues(b, 9, FromU64(SubSeq(b, 1, 8)), <<>>)

\* MvccTransaction::scan_prefix: the raw engine entries whose key starts with prefix
scan_prefix(eng, state, prefix) == [res |-> "Ok", results |-> EngScanPrefix(eng, prefix)]

\* the loop of scan_table over results[i..]
RECURSIVE scan_rows(_, _, _)
scan_rows(results, i, rows) ==
    IF i > Len(results) THEN [res |-> "Ok", rows |-> rows]
    ELSE Only({ IF ~d.ok THEN [res |-> "Internal", rows |-> <<>>]
                ELSE scan_rows(results, i + 1, Append(rows, d.row)) :
                d \in {DeRow(results[i][2])} })

scan_table(eng, state, table_name) ==
    scan_rows(scan_prefix(eng, state, KeyPrefixRow(table_name)).results, 1, <<>>)

----------------------------------------------------------------------------
(* Executors *)

RECURSIVE pad_from(_, _, _)
pad_from(table, results, i) ==
    IF i > Len(table.columns) THEN [res |-> "Ok", row |-> results]
    ELSE IF table.columns[i].default # <<>>
         THEN pad_from(table, Append(results, table.columns[i].default[1]), i + 1)
    ELSE [res |-> "Internal", row |-> <<>>]

pad_row(table, row) == pad_from(table, row, Len(row) + 1)

RECURSIVE make_from(_, _, _, _, _)
make_from(table, columns, values, results, i) ==
    IF i > Len(table.columns) THEN [res |-> "Ok", row |-> results]
    ELSE LET given == {j \in 1..Len(columns) : columns[j] = table.columns[i].name}
         IN IF given # {}
            THEN make_from(table, columns, values, Append(results, values[SetMax(given)]), i + 1)
            ELSE IF table.columns[i].default # <<>>
            THEN make_from(table, columns, values,
                           Append(results, table.columns[i].default[1]), i + 1)
            ELSE [res |-> "Internal", row |-> <<>>]

make_row(table, columns, values) ==
    IF Len(columns) # Len(values) THEN [res |-> "Internal", row |-> <<>>]
    ELSE make_from(table, columns, values, <<>>, 1)

\* the row Insert::execute builds from one tuple of expressions
insert_row(table, node, exprs) ==
    IF node.columns = <<>>
    THEN pad_row(table, [j \in 1..Len(exprs) |-> from_expression(exprs[j])])
    ELSE make_row(table, node.columns, [j \in 1..Len(exprs) |-> from_expression(exprs[j])])

\* one tuple of Insert::execute: the row built from it and then create_row
insert_tuple(eng, state, table, node, exprs) ==
    Only({ IF built.res # "Ok" THEN [engine |-> eng, res |-> built.res]
           ELSE create_row(eng, state, node.table_name, built.row) :
           built \in {insert_row(table, node, exprs)} })

\* the loop of Insert::execute from tuple i on, count rows being written so far
RECURSIVE insert_from(_, _, _, _, _, _)
insert_from(eng, state, table, node, i, count) ==
    IF i > Len(node.values) THEN [engine |-> eng, res |-> "Ok", count |-> count]
    ELSE Only({ IF created.res # "Ok"
                THEN [engine |-> created.engine, res |-> created.res, count |-> count]
                ELSE insert_from(created.engine, state, table, node, i + 1, count + 1) :
                created \in {insert_tuple(eng, state, table, node, node.values[i])} })

insert_execute(eng, state, node) ==
    Only({ IF tb.res # "Ok" THEN [engine |-> eng, res |-> tb.res, count |-> 0]
           ELSE insert_from(eng, state, tb.table[1], node, 1, 0) :
           tb \in {must_get_table(eng, state, node.table_name)} })

\* CreateTable::execute and Scan::execute: todo!(), which panics
create_table_execute(eng, state, node) == [engine |-> eng, res |-> "Panic", count |-> 0]

scan_execute(eng, state, node) == [engine |-> eng, res |-> "Panic", count |-> 0]

\* Executor::build followed by execute
executor_execute(eng, state, node) ==
    CASE node.kind = "CreateTable" -> create_table_execute(eng, state, node)
      [] node.kind = "Insert" -> insert_execute(eng, state, node)
      [] node.kind = "Scan" -> scan_execute(eng, state, node)

\* the end of Session::execute for the transaction txn whose plan returned ran:
\* commit on success, rollback on error; a panic unwinds past both
session_end(txn, ran) ==
    IF ran.res = "Panic"
    THEN [engine |-> ran.engine, res |-> "Panic", state |-> txn.state, ended |-> "panicked"]
    ELSE Only({ IF done.res # "Ok"
                THEN [engine |-> done.engine, res |-> done.res,
                      state |-> txn.state, ended |-> "failed"]
                ELSE [engine |-> done.engine, res |-> ran.res, state |-> txn.state,
                      ended |-> IF ran.res = "Ok" THEN "committed" ELSE "rolledback"] :
                done \in { IF ran.res = "Ok" THEN kv_commit(ran.engine, txn.state)
                           ELSE kv_rollback(ran.engine, txn.state) } })

\* Session::execute on a parsed statement: begin, run the plan, then commit on
\* success and rollback on error; a panic unwinds past both
session_execute(eng, stmt) ==
    Only({ IF txn.res # "Ok"
           THEN [engine |-> txn.engine, res |-> txn.res, state |-> txn.state, ended |-> "none"]
           ELSE Only({ session_end(txn, ran) :
                       ran \in {executor_execute(txn.engine, txn.state, build_statment(stmt))} }) :
           txn \in {begin(eng)} })

----------------------------------------------------------------------------
(* The state machine of the MVCC layer.  Clients call begin on clones of    *)
(* one Mvcc and then call get / set / delete on the transactions they hold, *)
(* ending each with one commit or one rollback.  Every method holds the     *)
(* engine mutex for its whole body, so each call is one atomic step.  What  *)
(* a call returns is the value of its operator in the state it is made in.  *)

\* bookkeeping kept beside each MvccTransaction: whether its client has ended
\* it, and which transactions were live (begun, not ended) when it began
Txn(state, live) == [state |-> state, status |-> "live", conc |-> live]

Live == {i \in 1..Len(txns) : txns[i].status = "live"}

\* a client thread: pc is idle (in no call), waiting (in engine.lock()) or
\* locked (holding the MutexGuard, inside the method body); txn is the index
\* in txns of the transaction it began, 0 before
Thread(pc, txn) == [pc |-> pc, txn |-> txn]

NoThreads == [i \in 1..MaxThreads |-> Thread("idle", 0)]

Init ==
    /\ engine = EmptyEngine
    /\ txns = <<>>
    /\ log = <<>>
    /\ mutex = 0
    /\ threads = NoThreads

Begin ==
    LET r == begin(engine)
    IN /\ engine' = r.engine
       /\ txns' = IF r.res = "Ok" THEN Append(txns, Txn(r.state, Live)) ELSE txns
       /\ UNCHANGED <<log, mutex, threads>>

Get(t, key) ==
    /\ txns[t].status = "live"
    /\ get(engine, txns[t].state, key).res \in {"Ok", "Internal"}
    /\ UNCHANGED <<engine, txns, log, mutex, threads>>

Set(t, key, value) ==
    /\ txns[t].status = "live"
    /\ engine' = set(engine, txns[t].state, key, value).engine
    /\ UNCHANGED <<txns, log, mutex, threads>>

Delete(t, key) ==
    /\ txns[t].status = "live"
    /\ engine' = delete(engine, txns[t].state, key).engine
    /\ UNCHANGED <<txns, log, mutex, threads>>

Commit(t) ==
    /\ txns[t].status = "live"
    /\ engine' = commit(engine, txns[t].state).engine
    /\ txns' = [txns EXCEPT ![t].status = "committed"]
    /\ UNCHANGED <<log, mutex, threads>>

Rollback(t) ==
    /\ txns[t].status = "live"
    /\ engine' = rollback(engine, txns[t].state).engine
    /\ txns' = [txns EXCEPT ![t].status = "rolledback"]
    /\ UNCHANGED <<log, mutex, threads>>

Next ==
    \/ Len(txns) < MaxTxns /\ Begin
    \/ \E t \in 1..Len(txns), key \in RawKeys : Get(t, key)
    \/ \E t \in 1..Len(txns), key \in RawKeys : Set(t, key, RawValue(t))
    \/ \E t \in 1..Len(txns), key \in RawKeys : Delete(t, key)
    \/ \E t \in 1..Len(txns) : Commit(t)
    \/ \E t \in 1..Len(txns) : Rollback(t)

Spec == Init /\ [][Next]_vars

(* The long run: the same clients on an engine that has been used before. *)
(* Mvcc::new takes the engine it is given; UsedVersion - 1 earlier          *)
(* transactions that began and committed one after the other and wrote      *)
(* nothing leave exactly UsedEngine behind (SpecWarm runs them from the     *)
(* empty store and reaches WarmReached).  From there the versions in use    *)
(* cross 255, where the first byte of the encoded version wraps.            *)

UsedEngine == EngSet(EmptyEngine, NextVersion, U64(UsedVersion))

InitLong ==
    /\ engine = UsedEngine
    /\ txns = <<>>
    /\ log = <<>>
    /\ mutex = 0
    /\ threads = NoThreads

SpecLong == InitLong /\ [][Next]_vars

(* The store with data: the same clients on an engine in which a first     *)
(* transaction has set every key of RawKeys and committed, the state Spec  *)
(* reaches by Begin, a Set of each key and Commit.                         *)

DataBegun == begin(EmptyEngine)

RECURSIVE SetAll(_, _, _)
SetAll(eng, state, keys) ==
    IF keys = {} THEN eng
    ELSE Only({ SetAll(set(eng, state, k, RawValue(state.version)).engine, state, keys \ {k}) :
                k \in {CHOOSE x \in keys : TRUE} })

DataEngine == commit(SetAll(DataBegun.engine, DataBegun.state, RawKeys), DataBegun.state).engine

InitData ==
    /\ engine = DataEngine
    /\ txns = << [Txn(DataBegun.state, {}) EXCEPT !.status = "committed"] >>
    /\ log = <<>>
    /\ mutex = 0
    /\ threads = NoThreads

SpecData == InitData /\ [][Next]_vars

DataReached == engine = DataEngine /\ Len(txns) = 1 /\ txns[1].status = "committed"

NextWarm ==
    \/ Len(txns) < UsedVersion - 1 /\ Live = {} /\ Begin
    \/ \E t \in 1..Len(txns) : Commit(t)

SpecWarm == Init /\ [][NextWarm]_vars

WarmReached == engine = UsedEngine /\ Live = {}

----------------------------------------------------------------------------
(* The state machine of the SQL layer.  Clients either hold SQL            *)
(* transactions obtained from KVEngine::begin and call the Transaction     *)
(* trait methods and the executors on them, ending each with the trait's   *)
(* commit or rollback, or they hand whole statements to Session::execute,  *)
(* which does all of that in one call.                                     *)

\* Transaction::create_table on the SQL transaction t
TxnCreateTable(t, table) ==
    /\ txns[t].status = "live"
    /\ engine' = create_table(engine, txns[t].state, table).engine
    /\ UNCHANGED <<txns, log, mutex, threads>>

\* the Insert executor run on the SQL transaction t
ExecInsert(t, stmt) ==
    /\ txns[t].status = "live"
    /\ engine' = insert_execute(engine, txns[t].state, build_statment(stmt)).engine
    /\ UNCHANGED <<txns, log, mutex, threads>>

\* Transaction::create_row on the SQL transaction t
TxnCreateRow(t, table_name, row) ==
    /\ txns[t].status = "live"
    /\ engine' = create_row(engine, txns[t].state, table_name, row).engine
    /\ UNCHANGED <<txns, log, mutex, threads>>

\* Transaction::scan_table on the SQL transaction t
TxnScanTable(t, table_name) ==
    /\ txns[t].status = "live"
    /\ scan_table(engine, txns[t].state, table_name).res \in {"Ok", "Internal"}
    /\ UNCHANGED <<engine, txns, log, mutex, threads>>

\* Transaction::commit on the SQL transaction t
TxnCommit(t) ==
    /\ txns[t].status = "live"
    /\ engine' = kv_commit(engine, txns[t].state).engine
    /\ txns' = [txns EXCEPT ![t].status = "committed"]
    /\ UNCHANGED <<log, mutex, threads>>

\* Transaction::rollback on the SQL transaction t
TxnRollback(t) ==
    /\ txns[t].status = "live"
    /\ engine' = kv_rollback(engine, txns[t].state).engine
    /\ txns' = [txns EXCEPT ![t].status = "rolledback"]
    /\ UNCHANGED <<log, mutex, threads>>

\* Session::execute of one statement; its transaction is gone when it returns
SessionExecute(stmt) ==
    \E r \in {session_execute(engine, stmt)} :
        /\ engine' = r.engine
        /\ txns' = Append(txns, [Txn(r.state, Live) EXCEPT !.status = r.ended])
        /\ log' = Append(log, [stmt |-> stmt, res |-> r.res, txn |-> Len(txns) + 1])
        /\ UNCHANGED <<mutex, threads>>

NextSql ==
    \/ Len(txns) < MaxSqlTxns /\ Begin
    \/ \E t \in 1..Len(txns), stmt \in StatementsT :
          stmt.kind = "CreateTable" /\ TxnCreateTable(t, build_statment(stmt).schema)
    \/ \E t \in 1..Len(txns) : TxnCreateTable(t, NoColumns)
    \/ \E t \in 1..Len(txns), stmt \in StatementsT : stmt.kind = "Insert" /\ ExecInsert(t, stmt)
    \/ \E t \in 1..Len(txns), row \in RowsGiven : TxnCreateRow(t, TableT, row)
    \/ \E t \in 1..Len(txns) : TxnScanTable(t, TableT)
    \/ \E t \in 1..Len(txns) : TxnCommit(t)
    \/ \E t \in 1..Len(txns) : TxnRollback(t)
    \/ Len(txns) < MaxSqlTxns /\ \E stmt \in StatementsT : SessionExecute(stmt)

SpecSql == Init /\ [][NextSql]_vars

(* The scenario about table t1: transactions that create t1, run its three *)
(* inserts and scan it.                                                    *)
NextT1 ==
    \/ Len(txns) < MaxSqlTxns /\ Begin
    \/ \E t \in 1..Len(txns), stmt \in StatementsT1 :
          stmt.kind = "CreateTable" /\ TxnCreateTable(t, build_statment(stmt).schema)
    \/ \E t \in 1..Len(txns), stmt \in StatementsT1 : stmt.kind = "Insert" /\ ExecInsert(t, stmt)
    \/ \E t \in 1..Len(txns) : TxnScanTable(t, TableT1)
    \/ \E t \in 1..Len(txns) : TxnCommit(t)
    \/ \E t \in 1..Len(txns) : TxnRollback(t)
    \/ Len(txns) < MaxSqlTxns /\ \E stmt \in StatementsT1 : SessionExecute(stmt)

SpecT1 == Init /\ [][NextT1]_vars

----------------------------------------------------------------------------
(* Vocabulary of the properties *)

\* the versions under which raw key `key` has an entry in the store
VersionsOf(eng, key) ==
    {decode(b).version :
        b \in {x \in DOMAIN eng : decode(x).kind = "Version" /\ decode(x).raw = key}}

\* the store entries that belong to version v, whatever their kind and raw key
EntriesOf(eng, v) ==
    {b \in DOMAIN eng :
        decode(b).kind \in {"TxnAcvtive", "TxnWrite", "Version"} /\ decode(b).version = v}

\* the transaction that was handed version w
Holder(w) == CHOOSE i \in 1..Len(txns) : txns[i].state.version = w

\* u wrote before t's snapshot: it began before t and had committed by then
CommittedBefore(u, t) ==
    u < t /\ u \notin txns[t].conc /\ txns[u].status = "committed"

\* u is outside t's snapshot: it was live when t began, or it began after t
Concurrent(u, t) == u \in txns[t].conc \/ u > t

----------------------------------------------------------------------------
(* C1: a set or delete of key k by a live transaction T returns            *)
(* WriteConflict whenever the highest stored version of k was written by   *)
(* another transaction that was live when T began or that began after T,   *)
(* whether or not that writer has committed.                               *)
C1_ConflictOnInvisibleLatest ==
    \A t \in Live, key \in RawKeys :
        LET S == VersionsOf(engine, key)
        IN (S # {} /\ Concurrent(Holder(SetMax(S)), t)) =>
              /\ set(engine, txns[t].state, key, RawValue(t)).res = "WriteConflict"
              /\ delete(engine, txns[t].state, key).res = "WriteConflict"

\* the case of C1 below version 256: both transactions live, the later one wrote
C1_Witness ==
    \E t \in Live, u \in Live, key \in RawKeys :
        /\ t < u
        /\ VersionsOf(engine, key) = {txns[u].state.version}
        /\ set(engine, txns[t].state, key, RawValue(t)).res = "WriteConflict"

----------------------------------------------------------------------------
\* the entry get is specified to return for state {version v, active A}: the
\* largest stored version v' of key with v' <= v and v' not in A
SnapshotVersions(eng, state, key) ==
    {w \in VersionsOf(eng, key) : w <= state.version /\ w \notin state.active_versions}

StoredValue(eng, key, w) == DeOption(eng[Version(key, w)]).value

(* C2: in every reachable state, get(k) by a transaction with state        *)
(* {version v, active_versions A} returns the stored value of the largest  *)
(* version v' of k with v' <= v and v' not in A (None for a tombstone),    *)
(* and None when k has no such version.                                    *)
C2_GetReturnsLatestVisible ==
    \A t \in Live, key \in RawKeys :
        LET S == SnapshotVersions(engine, txns[t].state, key)
            r == get(engine, txns[t].state, key)
        IN /\ r.res = "Ok"
           /\ r.value = IF S = {} THEN None ELSE StoredValue(engine, key, SetMax(S))

\* the case of C2 below version 256: a newer entry of the key is skipped
\* because its writer is in the reader's active set, and an older one returned
C2_Witness ==
    \E t \in Live, key \in RawKeys :
        LET S == SnapshotVersions(engine, txns[t].state, key)
        IN /\ S # {}
           /\ \E w \in VersionsOf(engine, key) :
                 w > SetMax(S) /\ w \in txns[t].state.active_versions
           /\ get(engine, txns[t].state, key).value = StoredValue(engine, key, SetMax(S))
           /\ get(engine, txns[t].state, key).value.some

(* C3: get by transaction T1 never returns an entry written by a           *)
(* transaction that was live when T1 began or that began after T1, also    *)
(* after that transaction has committed: what get returns is T1's own      *)
(* write or the write of a transaction that had committed before T1 began. *)
C3_NoReadFromConcurrent ==
    \A t \in Live, key \in RawKeys :
        LET r == get(engine, txns[t].state, key)
        IN r.version # 0 =>
              /\ ~Concurrent(Holder(r.version), t)
              /\ Holder(r.version) = t \/ CommittedBefore(Holder(r.version), t)
              /\ r.value = StoredValue(engine, key, r.version)

\* T1 began, then T2 began, set the key and committed; T1 still reads None
C3_Witness ==
    \E t \in Live, u \in 1..Len(txns), key \in RawKeys :
        /\ t < u
        /\ txns[u].status = "committed"
        /\ txns[u].state.version \in VersionsOf(engine, key)
        /\ StoredValue(engine, key, txns[u].state.version).some
        /\ get(engine, txns[t].state, key).value = None

(* C4: once T2 has set k := x and committed, a transaction that begins     *)
(* after that commit, and after no later committed write to k, gets x      *)
(* from get(k) (as long as it has not written k itself).                   *)
C4_ReadsLatestCommitted ==
    \A t \in Live, key \in RawKeys :
        LET C == {w \in VersionsOf(engine, key) : CommittedBefore(Holder(w), t)}
        IN (C # {} /\ txns[t].state.version \notin VersionsOf(engine, key)) =>
              get(engine, txns[t].state, key).value = StoredValue(engine, key, SetMax(C))

\* the case of C4 below version 256: a fresh transaction reads a committed set
C4_Witness ==
    \E t \in Live, u \in 1..Len(txns), key \in RawKeys :
        /\ CommittedBefore(u, t)
        /\ VersionsOf(engine, key) = {txns[u].state.version}
        /\ get(engine, txns[t].state, key).value = Some(RawValue(u))

----------------------------------------------------------------------------
(* C8: after rollback of the transaction with version v has returned, the  *)
(* store holds no Version(k, v) for any key k, no TxnWrite(v, _) and no    *)
(* TxnActive(v), whatever the transaction wrote and however the others     *)
(* interleaved; a later get therefore cannot return a write of v.          *)
C8_RollbackErases ==
    \A t \in 1..Len(txns) :
        txns[t].status = "rolledback" =>
            /\ EntriesOf(engine, txns[t].state.version) = {}
            /\ \A u \in Live, key \in RawKeys :
                  get(engine, txns[u].state, key).version # txns[t].state.version

\* a transaction wrote both keys and rolled back while another transaction,
\* begun after it, holds a write of its own
C8_Witness ==
    \E t \in 1..Len(txns), u \in Live :
        /\ txns[t].status = "rolledback"
        /\ t < u
        /\ EntriesOf(engine, txns[u].state.version) # {TxnAcvtive(txns[u].state.version)}
        /\ \A key \in RawKeys : VersionsOf(engine, key) # {}

(* C9: when commit of the transaction with version v returns, every        *)
(* Version(k, v) entry it wrote is still there with its value unchanged,   *)
(* and no TxnWrite(v, _) entry and no TxnActive(v) marker is left.         *)
C9_CommitKeepsVersions ==
    [][\A t \in 1..Len(txns) :
          (txns[t].status = "live" /\ txns'[t].status = "committed") =>
             LET v == txns[t].state.version
             IN /\ \A b \in EntriesOf(engine, v) :
                      decode(b).kind = "Version" => b \in DOMAIN engine' /\ engine'[b] = engine[b]
                /\ \A b \in EntriesOf(engine', v) : decode(b).kind = "Version"]_vars

\* a transaction that set one key and deleted the other has committed
C9_Witness ==
    \E t \in 1..Len(txns) :
        /\ txns[t].status = "committed"
        /\ Cardinality(EntriesOf(engine, txns[t].state.version)) = 2
        /\ \E key \in RawKeys : StoredValue(engine, key, txns[t].state.version) = None
        /\ \E key \in RawKeys : StoredValue(engine, key, txns[t].state.version).some

(* C10: on a store that starts empty, the versions begin hands out are     *)
(* 1, 2, 3, ... in the order of the begins: the first is 1, each is one    *)
(* more than the one before (so no two transactions share a version), and  *)
(* the stored NextVersion is the highest version handed out plus 1,        *)
(* whatever commits and rollbacks happened in between.                     *)
C10_VersionsCountUp ==
    /\ \A t \in 1..Len(txns) : txns[t].state.version = t
    /\ IF txns = <<>> THEN EngGet(engine, NextVersion) = <<>>
       ELSE EngGet(engine, NextVersion) = <<U64(Len(txns) + 1)>>

\* three begins with a commit and a rollback in between
C10_Witness ==
    /\ Len(txns) >= 3
    /\ txns[1].status = "committed"
    /\ txns[2].status = "rolledback"
    /\ txns[2].conc = {}
    /\ txns[3].conc = {}

----------------------------------------------------------------------------
(* C5: the SQL transaction's commit ends its MVCC transaction: once commit *)
(* has returned Ok for the transaction of version v, as it has whenever    *)
(* Session::execute returns successfully, the store holds no TxnActive(v)  *)
(* marker and no TxnWrite(v, _) entry.                                     *)
C5_SqlCommitEndsTransaction ==
    \A t \in 1..Len(txns) :
        txns[t].status = "committed" =>
            \A b \in EntriesOf(engine, txns[t].state.version) :
                decode(b).kind \notin {"TxnAcvtive", "TxnWrite"}

----------------------------------------------------------------------------
(* C6: once a transaction that created table t has committed, a statement  *)
(* INSERT INTO t with a valid tuple that Session::execute runs afterwards  *)
(* finds the table and succeeds.                                           *)
C6_LaterStatementSeesTable ==
    \A e \in 1..Len(log) :
        (/\ log[e].stmt = StmtInsert
         /\ \E u \in 1..Len(txns) :
               /\ CommittedBefore(u, log[e].txn)
               /\ Version(KeyTable(TableT), txns[u].state.version) \in DOMAIN engine)
        => log[e].res = "Ok"

----------------------------------------------------------------------------
(* C7: a statement that failed is rolled back as a whole: once rollback    *)
(* has returned for the transaction of version v, as it has whenever       *)
(* Session::execute returns an error, the store holds no Version, TxnWrite *)
(* or TxnActive entry of v.                                                *)
C7_FailedStatementLeavesNothing ==
    \A t \in 1..Len(txns) :
        txns[t].status = "rolledback" => EntriesOf(engine, txns[t].state.version) = {}

----------------------------------------------------------------------------
\* the store entries that are Version(key, v)
OwnEntries(eng, key, v) ==
    {b \in DOMAIN eng :
        /\ b[1] = 3
        /\ decode(b) = [kind |-> "Version", version |-> v, raw |-> key]}

----------------------------------------------------------------------------
(* Clients that keep using a transaction after ending it.  commit and      *)
(* rollback take &self, so the MvccTransaction stays usable after either   *)
(* has returned, and no method looks at whether the transaction has ended. *)

Ended == {i \in 1..Len(txns) : txns[i].status # "live"}

GetEnded(t, key) ==
    /\ t \in Ended
    /\ get(engine, txns[t].state, key).res \in {"Ok", "Internal"}
    /\ UNCHANGED <<engine, txns, log, mutex, threads>>

SetEnded(t, key, value) ==
    /\ t \in Ended
    /\ engine' = set(engine, txns[t].state, key, value).engine
    /\ UNCHANGED <<txns, log, mutex, threads>>

DeleteEnded(t, key) ==
    /\ t \in Ended
    /\ engine' = delete(engine, txns[t].state, key).engine
    /\ UNCHANGED <<txns, log, mutex, threads>>

CommitEnded(t) ==
    /\ t \in Ended
    /\ engine' = commit(engine, txns[t].state).engine
    /\ UNCHANGED <<txns, log, mutex, threads>>

RollbackEnded(t) ==
    /\ t \in Ended
    /\ engine' = rollback(engine, txns[t].state).engine
    /\ UNCHANGED <<txns, log, mutex, threads>>

NextReuse ==
    \/ Len(txns) < MaxReuseTxns /\ Begin
    \/ \E t \in 1..Len(txns), key \in RawKeys : Get(t, key)
    \/ \E t \in 1..Len(txns), key \in RawKeys : Set(t, key, RawValue(t))
    \/ \E t \in 1..Len(txns), key \in RawKeys : Delete(t, key)
    \/ \E t \in 1..Len(txns) : Commit(t)
    \/ \E t \in 1..Len(txns) : Rollback(t)
    \/ \E t \in 1..Len(txns), key \in RawKeys : GetEnded(t, key)
    \/ \E t \in 1..Len(txns), key \in RawKeys : SetEnded(t, key, RawValue(t))
    \/ \E t \in 1..Len(txns), key \in RawKeys : DeleteEnded(t, key)
    \/ \E t \in 1..Len(txns) : CommitEnded(t)
    \/ \E t \in 1..Len(txns) : RollbackEnded(t)

SpecReuse == Init /\ [][NextReuse]_vars

(* C12: a transaction ends once: after its commit or rollback has          *)
(* returned, every further get, set, delete, commit and rollback on it is  *)
(* rejected and leaves the store as it is.                                 *)
C12_EndedTransactionRejects ==
    \A t \in Ended, key \in RawKeys :
        LET state == txns[t].state
        IN /\ get(engine, state, key).res # "Ok"
           /\ set(engine, state, key, RawValue(t)).res # "Ok"
           /\ set(engine, state, key, RawValue(t)).engine = engine
           /\ delete(engine, state, key).res # "Ok"
           /\ delete(engine, state, key).engine = engine
           /\ commit(engine, state).res # "Ok"
           /\ commit(engine, state).engine = engine
           /\ rollback(engine, state).res # "Ok"
           /\ rollback(engine, state).engine = engine

----------------------------------------------------------------------------
\* the raw keys of table_name's rows that have a stored version
RowKeys(eng, table_name) ==
    {decode(b).raw :
        b \in {x \in DOMAIN eng :
                  /\ x[1] = 3
                  /\ decode(x).kind = "Version"
                  /\ IsPrefix(KeyPrefixRow(table_name), decode(x).raw)}}

\* per primary key of table_name, the newest row version in the snapshot of
\* state, tombstones left out
VisibleRows(eng, state, table_name) ==
    {DeRow(StoredValue(eng, k, SetMax(SnapshotVersions(eng, state, k))).bytes).row :
        k \in {x \in RowKeys(eng, table_name) :
                  /\ SnapshotVersions(eng, state, x) # {}
                  /\ StoredValue(eng, x, SetMax(SnapshotVersions(eng, state, x))).some}}

RowsOf(seq) == {seq[i] : i \in 1..Len(seq)}

(* C13: scan_table(t) run in a transaction T returns, for each primary key *)
(* of t, the newest row version visible to T and nothing else: no row of a *)
(* concurrent or later transaction, and no primary key twice.              *)
C13_ScanReturnsNewestVisible ==
    \A t \in Live :
        LET r == scan_table(engine, txns[t].state, TableT)
            V == VisibleRows(engine, txns[t].state, TableT)
        IN /\ r.res = "Ok"
           /\ RowsOf(r.rows) = V
           /\ Len(r.rows) = Cardinality(V)

----------------------------------------------------------------------------
\* I1: one value per column, each Null in a nullable column or of the
\* column's datatype
SatisfiesI1(table, row) ==
    /\ Len(row) = Len(table.columns)
    /\ \A i \in 1..Len(row) :
          IF datatype(row[i]) = <<>> THEN table.columns[i].nullable
          ELSE datatype(row[i])[1] = table.columns[i].datatype

(* C14: for a row r that satisfies I1, when create_row(t, r) succeeds in a *)
(* transaction, scan_table(t) run next in the same transaction returns a   *)
(* list that contains r.                                                   *)
C14_CreatedRowIsScanned ==
    \A t \in Live, row \in RowsGiven :
        LET c == create_row(engine, txns[t].state, TableT, row)
        IN (c.res = "Ok" /\ SatisfiesI1(build_statment(StmtCreate).schema, row)) =>
              row \in RowsOf(scan_table(c.engine, txns[t].state, TableT).rows)

----------------------------------------------------------------------------
(* C15: create_row(t, row) succeeds only for a row that satisfies I1; for  *)
(* every other row it fails with Internal and writes nothing, so every     *)
(* stored row of t satisfies I1.                                           *)
C15_CreateRowOnlyValid ==
    /\ \A t \in Live, row \in RowsGiven :
          LET tb == get_table(engine, txns[t].state, TableT)
              c == create_row(engine, txns[t].state, TableT, row)
          IN (tb.table # <<>> /\ ~SatisfiesI1(tb.table[1], row)) =>
                c.res = "Internal" /\ c.engine = engine
    /\ \A k \in RowKeys(engine, TableT) :
          \A w \in VersionsOf(engine, k) :
             StoredValue(engine, k, w).some =>
                SatisfiesI1(build_statment(StmtCreate).schema,
                            DeRow(StoredValue(engine, k, w).bytes).row)

----------------------------------------------------------------------------
(* C18: every row the Insert executor hands to create_row has exactly one  *)
(* value per table column, in declaration order: the supplied value, else  *)
(* the column's default; a tuple for which no such row exists fails with   *)
(* Internal.                                                               *)
C18_InsertBuildsFullRows ==
    \A t \in Live, stmt \in StatementsT :
        stmt.kind = "Insert" =>
            LET tb == get_table(engine, txns[t].state, TableT)
                node == build_statment(stmt)
            IN tb.table # <<>> =>
                  \A i \in 1..Len(node.values) :
                      LET built == insert_row(tb.table[1], node, node.values[i])
                      IN /\ built.res \in {"Ok", "Internal"}
                         /\ built.res = "Ok" =>
                               /\ Len(built.row) = Len(tb.table[1].columns)
                               /\ \A j \in 1..Len(built.row) :
                                     IF j <= Len(node.values[i])
                                     THEN built.row[j] = from_expression(node.values[i][j])
                                     ELSE <<built.row[j]>> = tb.table[1].columns[j].default

----------------------------------------------------------------------------
(* C16: creating a table whose name already exists fails with Internal and *)
(* leaves the store unchanged, both when the table was created earlier in  *)
(* the same transaction and when it was created by a transaction that had  *)
(* committed before this one began.                                        *)
C16_RecreateIsInternal ==
    \A t \in Live :
        LET c == create_table(engine, txns[t].state, build_statment(StmtCreate).schema)
        IN (\E w \in VersionsOf(engine, KeyTable(TableT)) :
                Holder(w) = t \/ CommittedBefore(Holder(w), t)) =>
              c.res = "Internal" /\ c.engine = engine

----------------------------------------------------------------------------
(* C19: create_table with an empty column list fails with Internal and     *)
(* writes nothing: the store never holds a Version or TxnWrite entry for   *)
(* the key Table(name) of such a table.                                    *)
C19_NoColumnsIsInternal ==
    /\ \A t \in Live :
          LET c == create_table(engine, txns[t].state, NoColumns)
          IN c.res = "Internal" /\ c.engine = engine
    /\ \A b \in DOMAIN engine :
          decode(b).kind \in {"TxnWrite", "Version"} => decode(b).raw # KeyTable(NoColumns.name)

\* a transaction that has created table t and a row of it, and that
\* create_table refuses a table without columns
C19_Witness ==
    \E t \in Live :
        /\ get_table(engine, txns[t].state, TableT).table # <<>>
        /\ RowKeys(engine, TableT) # {}
        /\ get_table(engine, txns[t].state, NoColumns.name).table = <<>>
        /\ create_table(engine, txns[t].state, NoColumns).res = "Internal"

----------------------------------------------------------------------------
\* the transaction t has stored rows of t1 under the primary keys 1, 2 and 3
ScenarioDone(t) ==
    \A k \in {1, 2, 3} :
        Version(KeyRow(TableT1, Integer(k)), txns[t].state.version) \in DOMAIN engine

(* C17: once a transaction has created t1 (a int, b text default 'vv',     *)
(* c integer default 100) and run the inserts values(1, 'a', 1),           *)
(* values(2, 'b') and (c, a) values(200, 3), its scan of t1 returns        *)
(* exactly the rows [1, 'a', 1], [2, 'b', 100] and [3, Null, 200].         *)
C17_ScenarioRows ==
    \A t \in Live :
        ScenarioDone(t) =>
            LET r == scan_table(engine, txns[t].state, TableT1)
            IN /\ r.res = "Ok"
               /\ Len(r.rows) = 3
               /\ RowsOf(r.rows) =
                     { <<Integer(1), String(<<97>>), Integer(1)>>,
                       <<Integer(2), String(<<98>>), Integer(100)>>,
                       <<Integer(3), Null, Integer(200)>> }

----------------------------------------------------------------------------
(* Client threads on one engine.  Every MvccTransaction method, and        *)
(* Mvcc::begin, starts with engine.lock() and holds the MutexGuard until   *)
(* it returns; a thread whose lock() finds the mutex taken waits for it.   *)
(* Each thread begins one transaction, calls get, set and delete on it and *)
(* ends it with commit or rollback.                                        *)

\* the key the threads read and write
ThreadKey == <<107>>

Methods == {"get", "set", "delete", "commit", "rollback"}

\* the mutex once the method that thread holder ran has returned res: the
\* MutexGuard is a local of the method and is dropped on every return path
unlock_KeptOnConflict(holder, res) == IF res = "WriteConflict" THEN holder ELSE 0

unlock(holder, res) == 0

\* the body of the method op of the transaction with the given state
method(eng, op, state, t) ==
    CASE op = "get" -> [engine |-> eng, res |-> get(eng, state, ThreadKey).res]
      [] op = "set" -> set(eng, state, ThreadKey, RawValue(t))
      [] op = "delete" -> delete(eng, state, ThreadKey)
      [] op = "commit" -> commit(eng, state)
      [] op = "rollback" -> rollback(eng, state)

\* thread i calls a method, begin when it has no transaction yet, else a
\* method of its live transaction; every one of them starts in engine.lock()
Call(i) ==
    /\ threads[i].pc = "idle"
    /\ threads[i].txn # 0 => txns[threads[i].txn].status = "live"
    /\ threads' = [threads EXCEPT ![i].pc = "waiting"]
    /\ UNCHANGED <<engine, txns, log, mutex>>

\* engine.lock() returns in thread i: the mutex was free
Lock(i) ==
    /\ threads[i].pc = "waiting"
    /\ mutex = 0
    /\ mutex' = i
    /\ threads' = [threads EXCEPT ![i].pc = "locked"]
    /\ UNCHANGED <<engine, txns, log>>

\* thread i runs the body of the method it called, op, under the lock and
\* returns
Run(i, op) ==
    /\ threads[i].pc = "locked"
    /\ mutex = i
    /\ IF threads[i].txn = 0
       THEN /\ op = "begin"
            /\ \E r \in {begin(engine)} :
                  /\ engine' = r.engine
                  /\ txns' = IF r.res = "Ok" THEN Append(txns, Txn(r.state, Live)) ELSE txns
                  /\ threads' = [threads EXCEPT
                                    ![i] = Thread("idle",
                                                  IF r.res = "Ok" THEN Len(txns) + 1 ELSE 0)]
                  /\ mutex' = unlock(i, r.res)
       ELSE /\ op \in Methods
            /\ \E r \in {method(engine, op, txns[threads[i].txn].state, threads[i].txn)} :
                  /\ engine' = r.engine
                  /\ txns' = CASE op = "commit" ->
                                     [txns EXCEPT ![threads[i].txn].status = "committed"]
                               [] op = "rollback" ->
                                     [txns EXCEPT ![threads[i].txn].status = "rolledback"]
                               [] OTHER -> txns
                  /\ threads' = [threads EXCEPT ![i].pc = "idle"]
                  /\ mutex' = unlock(i, r.res)
    /\ UNCHANGED log

\* thread i returns from the method it is in, whichever it called
Return(i) == \E op \in Methods \cup {"begin"} : Run(i, op)

NextThreads ==
    \/ \E i \in 1..MaxThreads : Call(i)
    \/ \E i \in 1..MaxThreads : Lock(i)
    \/ \E i \in 1..MaxThreads, op \in Methods \cup {"begin"} : Run(i, op)

\* fair scheduling: a thread inside a method body keeps running, and a thread
\* in lock() gets the mutex if the mutex is free again and again
SpecThreads ==
    /\ Init
    /\ [][NextThreads]_vars
    /\ \A i \in 1..MaxThreads : WF_vars(Return(i)) /\ SF_vars(Lock(i))

----------------------------------------------------------------------------
\* the versions of the scanned items, in scan order
ScannedVersions(items) == [i \in 1..Len(items) |-> decode(items[i][1]).version]

(* C21: under the byte order of the encoded keys, for every raw key and    *)
(* every version bound V a transaction scans with, the range               *)
(* Version(raw, 0) ..= Version(raw, V) holds exactly the stored versions   *)
(* v <= V of that raw key, in ascending order of v, and no entry of        *)
(* another raw key or of another kind.                                     *)
C21_VersionRangeInOrder ==
    \A key \in RawKeys, t \in 1..Len(txns) :
        LET V == txns[t].state.version
            items == EngScan(engine, Version(key, 0), Version(key, V))
            vs == ScannedVersions(items)
        IN /\ \A i \in 1..Len(items) :
                 decode(items[i][1]).kind = "Version" /\ decode(items[i][1]).raw = key
           /\ {vs[i] : i \in 1..Len(vs)} = {w \in VersionsOf(engine, key) : w <= V}
           /\ \A i, j \in 1..Len(vs) : i < j => vs[i] < vs[j]

----------------------------------------------------------------------------
\* the versions that have a TxnAcvtive entry in the store
ActiveInStore(eng) ==
    {decode(b).version : b \in {x \in DOMAIN eng : x[1] = 1 /\ decode(x).kind = "TxnAcvtive"}}

(* C22: in every reachable state the store contains TxnActive(v) if and    *)
(* only if the transaction with version v has begun and has neither        *)
(* committed nor rolled back.                                              *)
C22_ActiveIffLive ==
    ActiveInStore(engine) = {txns[t].state.version : t \in Live}

\* a committed, a rolled back and a live transaction, the ended ones having
\* written
C22_Witness ==
    /\ Len(txns) = 3
    /\ txns[1].status = "committed"
    /\ txns[2].status = "rolledback"
    /\ txns[3].status = "live"
    /\ txns[3].conc = {2}
    /\ EntriesOf(engine, txns[3].state.version) # {TxnAcvtive(txns[3].state.version)}

----------------------------------------------------------------------------
(* C23: the active_versions of a transaction with version v is exactly the *)
(* set of versions of the transactions that were live when it began: it    *)
(* does not contain v, contains only versions below v, and of two          *)
(* transactions live at the same time the later one has the earlier one in *)
(* its active_versions, also when their begins run in threads that share   *)
(* the engine.                                                             *)
C23_ActiveIsLiveAtBegin ==
    \A t \in 1..Len(txns) :
        LET v == txns[t].state.version
            A == txns[t].state.active_versions
        IN /\ A = {txns[u].state.version : u \in txns[t].conc}
           /\ v \notin A
           /\ \A w \in A : w < v
           /\ \A u \in 1..(t - 1) :
                 (u \in Live /\ t \in Live) => txns[u].state.version \in A

\* two threads hold live transactions, the second thread's begun first
C23_Witness ==
    /\ Len(txns) = 2
    /\ Live = {1, 2}
    /\ threads[1].txn = 2
    /\ threads[2].txn = 1
    /\ txns[2].state.active_versions = {txns[1].state.version}
    /\ VersionsOf(engine, ThreadKey) # {}

----------------------------------------------------------------------------
(* C24: in every reachable state, for every live transaction with version  *)
(* v and every raw key k, TxnWrite(v, k) is present if and only if         *)
(* Version(k, v) is present, and a set or delete of k that succeeds leaves *)
(* both present.                                                           *)
C24_WriteRecordIffVersion ==
    \A t \in Live, key \in RawKeys :
        LET state == txns[t].state
            w == set(engine, state, key, RawValue(t))
            d == delete(engine, state, key)
        IN /\ TxnWrite(state.version, key) \in DOMAIN engine
                <=> Version(key, state.version) \in DOMAIN engine
           /\ w.res = "Ok" =>
                 {TxnWrite(state.version, key), Version(key, state.version)}
                     \subseteq DOMAIN w.engine
           /\ d.res = "Ok" =>
                 {TxnWrite(state.version, key), Version(key, state.version)}
                     \subseteq DOMAIN d.engine

\* two live transactions, each having written one key and not the other
C24_Witness ==
    \E t, u \in Live, k1, k2 \in RawKeys :
        /\ t # u
        /\ k1 # k2
        /\ VersionsOf(engine, k1) = {1, txns[t].state.version}
        /\ VersionsOf(engine, k2) = {1, txns[u].state.version}
        /\ TxnWrite(txns[t].state.version, k1) \in DOMAIN engine
        /\ StoredValue(engine, k2, txns[u].state.version) = None

----------------------------------------------------------------------------
\* transaction u's version of key is stored, is at or above the version t's
\* conflict check scans from, and is visible to t
VisiblePastLo(t, u, key) ==
    /\ Version(key, txns[u].state.version) \in DOMAIN engine
    /\ txns[u].state.version >= lo(txns[t].state)
    /\ is_visible(txns[t].state, txns[u].state.version)

(* C25 as stated: in write_inner's conflict check, every stored version of *)
(* the key from lo on that is visible to the writing transaction is the    *)
(* writing transaction's own version.                                      *)
C25_OnlyOwnVisiblePastLo ==
    \A t \in Live, u \in 1..Len(txns), key \in RawKeys :
        VisiblePastLo(t, u, key) => u = t

(* C25, amended: every stored version of the key from lo on that is        *)
(* visible to the writing transaction is its own version or the version of *)
(* a transaction that began after the oldest transaction of                *)
(* active_versions and committed before the writing transaction began.     *)
C25_VisiblePastLoIsOwnOrCommitted ==
    \A t \in Live, u \in 1..Len(txns), key \in RawKeys :
        VisiblePastLo(t, u, key) =>
            \/ u = t
            \/ /\ CommittedBefore(u, t)
               /\ txns[t].state.active_versions # {}
               /\ txns[u].state.version > SetMin(txns[t].state.active_versions)

\* a writer whose conflict check meets a committed version above lo, and
\* whose set succeeds
C25_Witness ==
    \E t \in Live, u \in 1..Len(txns), key \in RawKeys :
        /\ u # t
        /\ VisiblePastLo(t, u, key)
        /\ VersionsOf(engine, key) = {txns[u].state.version}
        /\ set(engine, txns[t].state, key, RawValue(t)).res = "Ok"

----------------------------------------------------------------------------
(* C26: in every reachable state and for every raw key k, at most one live *)
(* transaction has a TxnWrite entry for k, and no two transactions that    *)
(* were live at the same time have both committed a write to k.            *)
C26_OneLiveWriterPerKey ==
    \A key \in RawKeys, t, u \in 1..Len(txns) :
        (/\ t < u
         /\ t \in txns[u].conc
         /\ Version(key, txns[t].state.version) \in DOMAIN engine
         /\ Version(key, txns[u].state.version) \in DOMAIN engine)
        => /\ ~(t \in Live /\ u \in Live)
           /\ ~(txns[t].status = "committed" /\ txns[u].status = "committed")
           /\ t \in Live =>
                 ~(/\ TxnWrite(txns[t].state.version, key) \in DOMAIN engine
                   /\ TxnWrite(txns[u].state.version, key) \in DOMAIN engine)

----------------------------------------------------------------------------
(* C27: write conflicts are never spurious.  A set or delete of key k by a *)
(* live transaction T succeeds whenever every existing version of k was    *)
(* written by T itself or by a transaction that committed before T began,  *)
(* also when T's active_versions is non-empty and other transactions are   *)
(* writing other keys.                                                     *)
C27_NoSpuriousConflict ==
    \A t \in Live, key \in RawKeys :
        (\A w \in VersionsOf(engine, key) :
            Holder(w) = t \/ CommittedBefore(Holder(w), t))
        => /\ set(engine, txns[t].state, key, RawValue(t)).res = "Ok"
           /\ delete(engine, txns[t].state, key).res = "Ok"

\* T has written k1 over a committed version, a transaction that was live
\* when T began has written k2, and T's next set of k1 succeeds
C27_Witness ==
    \E t, u \in Live, k1, k2 \in RawKeys :
        /\ u \in txns[t].conc
        /\ k1 # k2
        /\ VersionsOf(engine, k1) = {1, txns[t].state.version}
        /\ txns[u].state.version \in VersionsOf(engine, k2)
        /\ set(engine, txns[t].state, k1, RawValue(t)).res = "Ok"
        /\ set(engine, txns[t].state, k2, RawValue(t)).res = "WriteConflict"

----------------------------------------------------------------------------
(* C28: reads are repeatable.  In every step in which a live transaction T *)
(* stays live and its own version of key k is not written, whatever the    *)
(* step is (a begin, set, delete, commit or rollback of another            *)
(* transaction), get(k) of T returns after the step what it returned       *)
(* before.                                                                 *)
C28_RepeatableRead ==
    [][\A t \in Live, key \in RawKeys :
          (/\ txns'[t].status = "live"
           /\ EngGet(engine', Version(key, txns[t].state.version))
                 = EngGet(engine, Version(key, txns[t].state.version)))
          => get(engine', txns[t].state, key) = get(engine, txns[t].state, key)]_vars

\* T still reads the first transaction's value of k after a transaction that
\* began later has set k and committed, and another has deleted the other key
C28_Witness ==
    \E t \in Live, u \in 1..Len(txns), key \in RawKeys :
        /\ t < u
        /\ txns[u].status = "committed"
        /\ Version(key, txns[u].state.version) \in DOMAIN engine
        /\ StoredValue(engine, key, txns[u].state.version) = Some(RawValue(u))
        /\ get(engine, txns[t].state, key).value = Some(RawValue(1))
        /\ get(engine, txns[t].state, key).version = 1

----------------------------------------------------------------------------
(* C29: a set or delete that returns WriteConflict leaves the whole store  *)
(* unchanged and the failing transaction live: its TxnActive marker and    *)
(* its earlier writes are intact, and it can still be committed or rolled  *)
(* back.                                                                   *)
C29_ConflictChangesNothing ==
    \A t \in Live, key \in RawKeys :
        LET state == txns[t].state
            w == set(engine, state, key, RawValue(t))
            d == delete(engine, state, key)
        IN /\ w.res = "WriteConflict" <=> d.res = "WriteConflict"
           /\ w.res = "WriteConflict" =>
                 /\ w.engine = engine
                 /\ d.engine = engine
                 /\ TxnAcvtive(state.version) \in DOMAIN w.engine
                 /\ commit(w.engine, state).res = "Ok"
                 /\ rollback(w.engine, state).res = "Ok"
                 /\ EntriesOf(rollback(w.engine, state).engine, state.version) = {}

\* a transaction that has written one key and whose set of the other key
\* returns WriteConflict
C29_Witness ==
    \E t \in Live, k1, k2 \in RawKeys :
        /\ k1 # k2
        /\ Version(k1, txns[t].state.version) \in DOMAIN engine
        /\ Version(k2, txns[t].state.version) \notin DOMAIN engine
        /\ set(engine, txns[t].state, k2, RawValue(t)).res = "WriteConflict"

----------------------------------------------------------------------------
\* the TxnAcvtive, TxnWrite and Version entries of eng that belong to a
\* version other than v
OtherEntries(eng, v) ==
    {<<b, eng[b]>> :
        b \in {x \in DOMAIN eng :
                  /\ decode(x).kind \in {"TxnAcvtive", "TxnWrite", "Version"}
                  /\ decode(x).version # v}}

\* eng2 differs from eng only in entries of version v
SameButVersion(eng, eng2, v) ==
    /\ OtherEntries(eng2, v) = OtherEntries(eng, v)
    /\ EngGet(eng2, NextVersion) = EngGet(eng, NextVersion)

(* C30: set, delete, commit and rollback of the transaction with version v *)
(* leave unchanged every TxnActive(u), TxnWrite(u, k) and Version(k, u)    *)
(* entry with u different from v, and NextVersion; begin changes           *)
(* NextVersion and leaves every entry of a version other than its own      *)
(* unchanged.  get and scan_prefix return a value and no store.           *)
C30_OtherVersionsUntouched ==
    /\ \A t \in Live :
          LET state == txns[t].state
          IN /\ \A key \in RawKeys :
                   /\ SameButVersion(engine, set(engine, state, key, RawValue(t)).engine,
                                     state.version)
                   /\ SameButVersion(engine, delete(engine, state, key).engine, state.version)
             /\ SameButVersion(engine, commit(engine, state).engine, state.version)
             /\ SameButVersion(engine, rollback(engine, state).engine, state.version)
    /\ LET b == begin(engine)
       IN /\ OtherEntries(b.engine, b.state.version) = OtherEntries(engine, b.state.version)
          /\ EntriesOf(engine, b.state.version) = {}
          /\ EngGet(b.engine, NextVersion) = <<U64(b.state.version + 1)>>
          /\ EngGet(b.engine, NextVersion) # EngGet(engine, NextVersion)

\* two live transactions, one with writes on both keys that it can commit or
\* roll back, beside the other's TxnAcvtive marker
C30_Witness ==
    \E t, u \in Live :
        /\ t # u
        /\ Cardinality(EntriesOf(engine, txns[t].state.version)) = 5
        /\ Cardinality(EntriesOf(engine, txns[u].state.version)) = 1
        /\ rollback(engine, txns[t].state).engine # commit(engine, txns[t].state).engine

====
